---- MODULE Spec2Model ----
(***************************************************************************)
(* Model of log_to_file.py: the command-line entry point (main), the       *)
(* sampling loop (loop_forever) and one sampling cycle (do_sample).        *)
(*                                                                         *)
(* Time is counted in ticks of 1/TicksPerSecond second, so that the        *)
(* monotonic clock can stand between two whole seconds.  Temperatures are  *)
(* fixed-point numbers in hundredths of a degree.                          *)
(***************************************************************************)
EXTENDS Integers, Sequences, FiniteSets, TLC

\* ---------------------------------------------------------------- bounds
TicksPerSecond == 1     \* resolution of the modelled clock
MaxInterval == 2        \* largest --interval (seconds) tried
MaxDur == 2             \* longest run of one do_sample call (ticks)
MaxDevices == 2         \* most readings in one enumeration
MaxCycles == 3          \* cycles of the loop that are explored
MaxCelsius == 400       \* formatter inputs reach +-MaxCelsius steps of 0.05 degree

\* ------------------------------------------------------------ input sets
None == "None"
\* values of --device that are tried
Devices == {None, "hidraw1"}
\* first values of time.monotonic() that are tried (ticks)
Origins == {1}
\* info["devices"]: a chain of identifiers, the last one is the selector name
Chains == {<<"hidraw0">>, <<"hidraw0", "hidraw1">>}
\* info["internal temperature"], in hundredths of a degree Celsius
Temps == {0, 1850}
Readings == [devices : Chains, temperature : Temps]
TempFormats == {"C", "F", "K"}

RECURSIVE SeqsUpTo(_, _)
SeqsUpTo(S, n) ==
    IF n = 0 THEN {<<>>}
    ELSE LET shorter == SeqsUpTo(S, n - 1)
         IN shorter \cup {Append(s, x) : s \in {t \in shorter : Len(t) = n - 1}, x \in S}

\* what temper.Temper().read() may return
Enumerations == SeqsUpTo(Readings, MaxDevices)

VARIABLES
    pc,             \* position of the single thread of control
    interval,       \* args.interval (seconds)
    device,         \* args.device, None when --device is not given
    temp_format,    \* args.temp_format
    clock,          \* the value time.monotonic() would return (ticks)
    origin_time,    \* loop_forever: origin_time
    now,            \* loop_forever: now
    sleep_time,     \* loop_forever: sleep_time (ticks)
    already_warned, \* module global already_warned
    outputs,        \* do_sample: outputs as returned by the enumeration
    out_file,       \* the sink: lines on the medium and lines still buffered
    stderr,         \* messages on the diagnostic stream
    exit_status,    \* process exit status, -1 while running
    started,        \* history: the clock when do_sample was last called
    found,          \* history: how many readings the last enumeration returned
    cycles          \* history: one record per call of do_sample

vars == <<pc, interval, device, temp_format, clock, origin_time, now, sleep_time,
          already_warned, outputs, out_file, stderr, exit_status, started, found, cycles>>

\* ------------------------------------------------------- pure helpers
Last(s) == s[Len(s)]

\* Python's % on integers: the result takes the sign of the divisor
PyMod(a, b) == IF b > 0 THEN a % b ELSE -((-a) % (-b))

\* interval expressed in clock ticks
IntervalTicks(ivl) == ivl * TicksPerSecond

\* the correction of a non-positive sleep time is left out
SleepTime_noguard(t, origin, ivl) == PyMod(-(t - origin), -ivl)

\* only a negative sleep time is corrected, zero is passed to sleep
SleepTime_strict(t, origin, ivl) ==
    LET s == PyMod(-(t - origin), -ivl)
    IN IF s < 0 THEN ivl ELSE s

\* lines 68-69: sleep_time = -(now - origin_time) % -interval
\*              if sleep_time <= 0: sleep_time = interval
SleepTime(t, origin, ivl) ==
    LET s == PyMod(-(t - origin), -ivl)
    IN IF s <= 0 THEN ivl ELSE s

\* the check for no devices left out
IsEmpty_never(outs) == FALSE

\* line 78: len(outputs) == 0
IsEmpty(outs) == Len(outs) = 0

\* the filter compares the first element of the chain
MatchingOutputs_first(outs, dev) ==
    SelectSeq(outs, LAMBDA info : info.devices[1] = dev)

\* the filter keeps every reading
MatchingOutputs_all(outs, dev) == outs

\* lines 86-89: the readings whose chain ends in the requested device
MatchingOutputs(outs, dev) ==
    SelectSeq(outs, LAMBDA info : Last(info.devices) = dev)

\* of several readings the first one is kept
Filtered_first(outs, dev) ==
    LET kept == IF dev # None THEN MatchingOutputs(outs, dev) ELSE outs
    IN IF Len(kept) >= 2 THEN <<kept[1]>> ELSE kept

\* lines 85-89: outputs after the optional filter
Filtered(outs, dev) == IF dev # None THEN MatchingOutputs(outs, dev) ELSE outs

\* the message names the first element of each chain
SelectorNames_first(outs) == [i \in 1..Len(outs) |-> outs[i].devices[1]]

\* line 95: " ".join(info["devices"][-1] for info in outputs)
SelectorNames(outs) == [i \in 1..Len(outs) |-> Last(outs[i].devices)]

MultipleDevicesError == "ERROR: multiple devices found! give --device with one of: "
DeviceNotFoundError == "ERROR: --device does not match any available device!"
NoDevicesWarning == "WARNING: no devices found!"
IntervalError == "--interval must be at least 1 (second)"
ValueError == "ValueError: too many values to unpack (expected 1)"

\* lines 79-81: the warning printed by a cycle that found no device
WarningsOnEmpty(warned) == IF ~warned THEN <<<<NoDevicesWarning>>>> ELSE <<>>

\* the flag is not set when the warning is printed
WarnedOnEmpty_unset(warned) == warned

\* lines 79-81: already_warned after a cycle that found no device
WarnedOnEmpty(warned) == IF ~warned THEN TRUE ELSE warned

\* the flag is not cleared when devices are found
WarnedOnFound_keep(warned) == warned

\* line 83: already_warned after a cycle that found devices
WarnedOnFound(warned) == FALSE

\* the F formula ends with the textbook offset: (celsius + 40) * 9 / 5 - 32
temp_format_fn_offset(fmt, celsius) ==
    CASE fmt = "C" -> celsius
      [] fmt = "F" -> ((celsius + 4000) * 9) \div 5 - 3200
      [] fmt = "K" -> celsius + 27315

\* lines 49-58: temp_format_fn, on hundredths of a degree
temp_format_fn(fmt, celsius) ==
    CASE fmt = "C" -> celsius
      [] fmt = "F" -> ((celsius + 4000) * 9) \div 5 - 4000
      [] fmt = "K" -> celsius + 27315

\* lines 44-46: time_format_fn, the wall clock truncated to whole seconds
time_format_fn(t) == t \div TicksPerSecond

\* the line carries the Celsius value, the formatter is not applied
SampleLine_raw(t, fmt, celsius) ==
    [timestamp |-> time_format_fn(t), temperature |-> celsius]

\* lines 99-102: "{},{}\n".format(time_format_fn(), temp_format_fn(celsius))
SampleLine(t, fmt, celsius) ==
    [timestamp |-> time_format_fn(t), temperature |-> temp_format_fn(fmt, celsius)]

\* line 99: out_file.write(line)
write(f, line) == [f EXCEPT !.buffer = Append(@, line)]

\* the flush is left out
flush_noop(f) == f

\* the flushed lines are put in front of the lines already on the medium
flush_prepend(f) == [f EXCEPT !.written = f.buffer \o @, !.buffer = <<>>]

\* line 103: out_file.flush()
flush(f) == [f EXCEPT !.written = @ \o f.buffer, !.buffer = <<>>]

\* ------------------------------------------------------------------ Init
Init ==
    /\ pc = "main"
    /\ interval \in (-1)..MaxInterval
    /\ device \in Devices
    /\ temp_format \in TempFormats
    /\ clock \in Origins
    /\ origin_time = 0
    /\ now = 0
    /\ sleep_time = 0
    /\ already_warned = FALSE
    /\ outputs = <<>>
    /\ out_file = [open |-> FALSE, written |-> <<>>, buffer |-> <<>>]
    /\ stderr = <<>>
    /\ exit_status = -1
    /\ started = 0
    /\ found = 0
    /\ cycles = <<>>

\* --------------------------------------------------------------- actions
\* the check rejects only negative intervals
Main_zero ==
    /\ pc = "main"
    /\ IF interval < 0
       THEN /\ pc' = "usage"
            /\ stderr' = Append(stderr, <<IntervalError>>)
            /\ exit_status' = 2
            /\ UNCHANGED out_file
       ELSE /\ pc' = "loop"
            /\ out_file' = [out_file EXCEPT !.open = TRUE]
            /\ UNCHANGED <<stderr, exit_status>>
    /\ UNCHANGED <<interval, device, temp_format, clock, origin_time, now,
                   sleep_time, already_warned, outputs, started, found, cycles>>

\* main, lines 32-37: reject a non-positive interval, else open the sink
Main ==
    /\ pc = "main"
    /\ IF interval <= 0
       THEN /\ pc' = "usage"
            /\ stderr' = Append(stderr, <<IntervalError>>)
            /\ exit_status' = 2
            /\ UNCHANGED out_file
       ELSE /\ pc' = "loop"
            /\ out_file' = [out_file EXCEPT !.open = TRUE]
            /\ UNCHANGED <<stderr, exit_status>>
    /\ UNCHANGED <<interval, device, temp_format, clock, origin_time, now,
                   sleep_time, already_warned, outputs, started, found, cycles>>

\* loop_forever, line 63: origin_time = time.monotonic()
LoopForever ==
    /\ pc = "loop"
    /\ origin_time' = clock
    /\ pc' = "call"
    /\ UNCHANGED <<interval, device, temp_format, clock, now, sleep_time,
                   already_warned, outputs, out_file, stderr, exit_status, started, found, cycles>>

\* loop_forever line 65 and do_sample line 75: do_sample is called and
\* outputs = temper.Temper().read()
Read ==
    /\ pc = "call"
    /\ Len(cycles) < MaxCycles
    /\ \E outs \in Enumerations : outputs' = outs
    /\ started' = clock
    /\ found' = Len(outputs')
    /\ cycles' = Append(cycles, [empty |-> (Len(outputs') = 0), warned |-> FALSE])
    /\ pc' = "sample"
    /\ UNCHANGED <<interval, device, temp_format, clock, origin_time, now,
                   sleep_time, already_warned, out_file, stderr, exit_status>>

\* a call of do_sample that returns has taken d ticks of the monotonic clock
\* (a call that ends the process leaves no later reading of the clock)
Elapse == \E d \in 0..MaxDur : clock' = clock + d

\* do_sample, lines 78-82: no device, warn once and return
NoDevices ==
    /\ pc = "sample"
    /\ IsEmpty(outputs)
    /\ Elapse
    /\ stderr' = stderr \o WarningsOnEmpty(already_warned)
    /\ already_warned' = WarnedOnEmpty(already_warned)
    /\ cycles' = [cycles EXCEPT ![Len(cycles)].warned = (Len(stderr') > Len(stderr))]
    /\ outputs' = <<>>
    /\ pc' = "returned"
    /\ UNCHANGED <<interval, device, temp_format, origin_time, now,
                   sleep_time, out_file, exit_status, started, found>>

\* the exit is swallowed and the call returns to the loop
DeviceNotFound_caught ==
    /\ pc = "sample"
    /\ ~IsEmpty(outputs)
    /\ device # None
    /\ Len(Filtered(outputs, device)) = 0
    /\ already_warned' = WarnedOnFound(already_warned)
    /\ stderr' = Append(stderr, <<DeviceNotFoundError>>)
    /\ exit_status' = 1
    /\ outputs' = <<>>
    /\ pc' = "returned"
    /\ UNCHANGED <<interval, device, temp_format, clock, origin_time, now,
                   sleep_time, out_file, started, found, cycles>>

\* do_sample, lines 83-90: the requested device is not among the readings
DeviceNotFound ==
    /\ pc = "sample"
    /\ ~IsEmpty(outputs)
    /\ device # None
    /\ Len(Filtered(outputs, device)) = 0
    /\ already_warned' = WarnedOnFound(already_warned)
    /\ stderr' = Append(stderr, <<DeviceNotFoundError>>)
    /\ exit_status' = 1
    /\ outputs' = <<>>
    /\ pc' = "exited"
    /\ UNCHANGED <<interval, device, temp_format, clock, origin_time, now,
                   sleep_time, out_file, started, found, cycles>>

\* do_sample, lines 83-95: several readings and no --device
MultipleDevices ==
    /\ pc = "sample"
    /\ ~IsEmpty(outputs)
    /\ Len(Filtered(outputs, device)) >= 2
    /\ device = None
    /\ already_warned' = WarnedOnFound(already_warned)
    /\ stderr' = Append(stderr, <<MultipleDevicesError>> \o
                                SelectorNames(Filtered(outputs, device)))
    /\ exit_status' = 1
    /\ outputs' = <<>>
    /\ pc' = "exited"
    /\ UNCHANGED <<interval, device, temp_format, clock, origin_time, now,
                   sleep_time, out_file, started, found, cycles>>

\* do_sample, lines 83-96: several readings match --device, so the unpacking
\* [info] = outputs raises ValueError, which nothing catches
UnpackError ==
    /\ pc = "sample"
    /\ ~IsEmpty(outputs)
    /\ Len(Filtered(outputs, device)) >= 2
    /\ device # None
    /\ already_warned' = WarnedOnFound(already_warned)
    /\ stderr' = Append(stderr, <<ValueError>>)
    /\ exit_status' = 1
    /\ outputs' = <<>>
    /\ pc' = "raised"
    /\ UNCHANGED <<interval, device, temp_format, clock, origin_time, now,
                   sleep_time, out_file, started, found, cycles>>

\* do_sample, lines 83-103: exactly one reading is left, write and flush
WriteSample ==
    /\ pc = "sample"
    /\ ~IsEmpty(outputs)
    /\ Len(Filtered(outputs, device)) = 1
    /\ Elapse
    /\ already_warned' = WarnedOnFound(already_warned)
    /\ LET info == Filtered(outputs, device)[1]
           celsius == info.temperature
       IN out_file' = flush(write(out_file, SampleLine(clock', temp_format, celsius)))
    /\ outputs' = <<>>
    /\ pc' = "returned"
    /\ UNCHANGED <<interval, device, temp_format, origin_time, now,
                   sleep_time, stderr, exit_status, started, found, cycles>>

\* loop_forever, lines 66-69: now = time.monotonic() and the sleep time
ComputeSleep ==
    /\ pc = "returned"
    /\ now' = clock
    /\ sleep_time' = SleepTime(clock, origin_time, IntervalTicks(interval))
    /\ pc' = "sleeping"
    /\ UNCHANGED <<interval, device, temp_format, clock, origin_time,
                   already_warned, outputs, out_file, stderr, exit_status, started, found, cycles>>

\* the loop body runs once: after the sleep loop_forever returns
Sleep_return ==
    /\ pc = "sleeping"
    /\ clock' = clock + sleep_time
    /\ pc' = "done"
    /\ UNCHANGED <<interval, device, temp_format, origin_time, now, sleep_time,
                   already_warned, outputs, out_file, stderr, exit_status,
                   started, found, cycles>>

\* loop_forever, line 70: time.sleep(sleep_time) lasts the requested time
Sleep ==
    /\ pc = "sleeping"
    /\ clock' = clock + sleep_time
    /\ pc' = "call"
    /\ UNCHANGED <<interval, device, temp_format, origin_time, now, sleep_time,
                   already_warned, outputs, out_file, stderr, exit_status, started, found, cycles>>

Next ==
    \/ Main
    \/ LoopForever
    \/ Read
    \/ NoDevices
    \/ DeviceNotFound
    \/ MultipleDevices
    \/ UnpackError
    \/ WriteSample
    \/ ComputeSleep
    \/ Sleep

\* ------------------------------------------- the formatter on its own
\* Celsius inputs in steps of 0.05 degree, for which * 9 / 5 is exact in
\* hundredths of a degree
CelsiusInputs == {5 * k : k \in (-MaxCelsius)..MaxCelsius}

\* the loop about to make its first call, one device, no --device
FormatInit ==
    /\ pc = "call"
    /\ interval = 1
    /\ device = None
    /\ temp_format \in TempFormats
    /\ clock \in Origins
    /\ origin_time = clock
    /\ now = 0
    /\ sleep_time = 0
    /\ already_warned = FALSE
    /\ outputs = <<>>
    /\ out_file = [open |-> TRUE, written |-> <<>>, buffer |-> <<>>]
    /\ stderr = <<>>
    /\ exit_status = -1
    /\ started = 0
    /\ found = 0
    /\ cycles = <<>>

\* do_sample, line 75, when the enumeration returns one reading
FormatRead ==
    /\ pc = "call"
    /\ cycles = <<>>
    /\ \E c \in CelsiusInputs :
          outputs' = <<[devices |-> <<"hidraw0">>, temperature |-> c]>>
    /\ started' = clock
    /\ found' = Len(outputs')
    /\ cycles' = Append(cycles, [empty |-> (Len(outputs') = 0), warned |-> FALSE])
    /\ pc' = "sample"
    /\ UNCHANGED <<interval, device, temp_format, clock, origin_time, now,
                   sleep_time, already_warned, out_file, stderr, exit_status>>

FormatNext ==
    \/ FormatRead
    \/ WriteSample

FormatSpec == FormatInit /\ [][FormatNext]_vars

Spec == Init /\ [][Next]_vars

\* the runs that write the temperature unconverted: the format has no part in
\* the control flow
LiveInit == Init /\ temp_format = "C"

\* the single thread of control keeps running: a step that can be taken is taken
LiveSpec == LiveInit /\ [][Next]_vars /\ WF_vars(Next)

TypeOK ==
    /\ pc \in {"main", "usage", "loop", "call", "sample", "returned", "sleeping",
               "exited", "raised"}
    /\ interval \in Int
    /\ device \in Devices
    /\ temp_format \in TempFormats
    /\ clock \in Nat
    /\ already_warned \in BOOLEAN
    /\ found \in 0..MaxDevices
    /\ Len(cycles) <= MaxCycles

\* ------------------------------------------------- outcomes of a cycle
\* sys.exit at line 95
AmbiguousDevice ==
    /\ pc = "exited"
    /\ exit_status = 1
    /\ Last(stderr)[1] = MultipleDevicesError

\* sys.exit at line 90
RequestedDeviceNotFound ==
    /\ pc = "exited"
    /\ exit_status = 1
    /\ Last(stderr) = <<DeviceNotFoundError>>

\* the cycles that have ended (the last record is a running call at "sample")
Completed == IF pc = "sample" THEN 1..(Len(cycles) - 1) ELSE 1..Len(cycles)

\* the positions of the readings whose chain ends in the selector
Candidates(outs, dev) == {i \in 1..Len(outs) : outs[i].devices[Len(outs[i].devices)] = dev}

\* the grid distance of an instant: (t - origin_time) mod interval
GridOffset(t) == (t - origin_time) % IntervalTicks(interval)

\* ------------------------------------------------------------- claims
\* C1: every invocation of do_sample after the first starts on the grid
\* origin_time + k*interval, whatever the durations of the earlier calls.
C1_GridAlignment ==
    (pc = "sample" /\ Len(cycles) > 1) => GridOffset(started) = 0

\* C2: the duration passed to sleep is interval - remainder when the remainder
\* of the elapsed time is not 0, and the full interval when it is 0.
C2_SleepComputation ==
    pc = "sleeping" =>
        LET remainder == GridOffset(now)
        IN sleep_time = IF remainder # 0
                        THEN IntervalTicks(interval) - remainder
                        ELSE IntervalTicks(interval)

\* C3: with a selector requested and several readings whose chain ends in it,
\* the cycle ends in the AmbiguousDevice exit whose message lists the candidates.
C3_AmbiguousAfterFilter ==
    [][(pc = "sample" /\ device # None /\ Cardinality(Candidates(outputs, device)) >= 2)
        => /\ AmbiguousDevice'
           /\ Last(stderr') = <<MultipleDevicesError>> \o
                  [k \in 1..Cardinality(Candidates(outputs, device)) |-> device]]_vars

\* C4: without a selector, one reading is resolved and written, and two or more
\* readings end in the AmbiguousDevice exit whose message lists the last chain
\* element of every reading in enumeration order, and nothing is written.
C4_NoSelector ==
    [][(pc = "sample" /\ device = None /\ Len(outputs) >= 1)
        => IF Len(outputs) = 1
           THEN /\ pc' = "returned"
                /\ out_file'.written = Append(out_file.written,
                       SampleLine(clock', temp_format, outputs[1].temperature))
           ELSE /\ AmbiguousDevice'
                /\ Last(stderr') = <<MultipleDevicesError>> \o
                       [i \in 1..Len(outputs) |-> outputs[i].devices[Len(outputs[i].devices)]]
                /\ out_file' = out_file]_vars

C4_Witness ==
    /\ AmbiguousDevice
    /\ device = None
    /\ Last(stderr) = <<MultipleDevicesError, "hidraw1", "hidraw0">>
    /\ out_file.written = <<>>

\* C5: when exactly one reading's chain ends in the requested selector, the
\* cycle writes that reading's temperature, whatever else is enumerated and
\* wherever the matching reading stands.
C5_SelectorResolves ==
    [][(pc = "sample" /\ device # None /\ Cardinality(Candidates(outputs, device)) = 1)
        => LET i == CHOOSE i \in Candidates(outputs, device) : TRUE
           IN /\ pc' = "returned"
              /\ exit_status' = -1
              /\ out_file'.written = Append(out_file.written,
                     SampleLine(clock', temp_format, outputs[i].temperature))
              /\ out_file'.buffer = <<>>]_vars

C5_Witness ==
    /\ pc = "returned"
    /\ device # None
    /\ found >= 2
    /\ Len(out_file.written) >= 1
    /\ ~Last(cycles).empty

\* C6: with a selector requested, a non-empty enumeration in which no chain ends
\* in the selector ends the process with the RequestedDeviceNotFound message,
\* which is neither the AmbiguousDevice exit nor a normal return, and nothing
\* is written.
C6_DeviceNotFound ==
    [][(pc = "sample" /\ device # None /\ Len(outputs) >= 1
                      /\ Candidates(outputs, device) = {})
        => /\ RequestedDeviceNotFound'
           /\ ~AmbiguousDevice'
           /\ pc' # "returned"
           /\ Len(stderr') = Len(stderr) + 1
           /\ out_file' = out_file]_vars

C6_Witness ==
    /\ RequestedDeviceNotFound
    /\ device # None
    /\ found >= 1
    /\ ~Last(cycles).empty

\* C7: an empty enumeration is never fatal, with or without a selector: the
\* call returns normally, the process keeps running, no error message is
\* printed and no line is written.
C7_EmptyNeverFatal ==
    [][(pc = "sample" /\ Len(outputs) = 0)
        => /\ pc' = "returned"
           /\ exit_status' = -1
           /\ out_file' = out_file
           /\ \/ stderr' = stderr
              \/ stderr' = Append(stderr, <<NoDevicesWarning>>)]_vars

C7_Witness ==
    /\ pc = "sleeping"
    /\ device # None
    /\ Last(cycles).empty
    /\ exit_status = -1

\* C8: already_warned is false before the first cycle, and after every cycle it
\* is true exactly when that cycle's enumeration was empty.
C8_WarningState ==
    /\ cycles = <<>> => ~already_warned
    /\ (Completed # {} /\ pc # "sample")
           => (already_warned <=> Last(cycles).empty)
    /\ (Completed # {} /\ pc = "sample")
           => (already_warned <=> cycles[Len(cycles) - 1].empty)

C8_Witness ==
    /\ pc = "returned"
    /\ Len(cycles) = 2
    /\ cycles[1].empty
    /\ ~cycles[2].empty
    /\ ~already_warned

\* C9: the warning is printed in a cycle exactly when the cycle's enumeration is
\* empty and the cycle before it (if any) was not: once per run of empty cycles,
\* on its first cycle, and again in a run that follows a non-empty cycle.
C9_WarningOncePerRun ==
    /\ \A i \in Completed :
          cycles[i].warned <=> (cycles[i].empty /\ (i = 1 \/ ~cycles[i - 1].empty))
    /\ Len(SelectSeq(stderr, LAMBDA m : m = <<NoDevicesWarning>>))
          = Cardinality({i \in Completed : cycles[i].warned})

C9_Witness ==
    /\ pc = "returned"
    /\ Len(cycles) = 3
    /\ cycles[1].empty /\ cycles[1].warned
    /\ ~cycles[2].empty
    /\ cycles[3].empty /\ cycles[3].warned
    /\ Len(stderr) = 2

\* C10: while the scheduler computes its sleep or sleeps, every cycle that
\* resolved a device has left exactly one line, timestamp and temperature, on
\* the medium and the sink holds nothing written but not flushed.
C10_Durability ==
    pc \in {"returned", "sleeping"} =>
        /\ out_file.buffer = <<>>
        /\ Len(out_file.written) = Cardinality({i \in Completed : ~cycles[i].empty})
        /\ (pc = "returned" /\ ~Last(cycles).empty)
               => /\ DOMAIN Last(out_file.written) = {"timestamp", "temperature"}
                  /\ Last(out_file.written).timestamp = clock \div TicksPerSecond

C10_Witness ==
    /\ pc = "sleeping"
    /\ Len(out_file.written) = 2
    /\ out_file.buffer = <<>>

\* C11: the sink is append-only and ordered by cycle: a step either leaves the
\* lines on the medium as they are or, inside one cycle, adds exactly one line
\* after them; earlier lines are never changed, removed or reordered, so the
\* timestamps on the medium never decrease.
C11_OutputOrdering ==
    [][/\ \/ out_file'.written = out_file.written
          \/ /\ pc = "sample"
             /\ Len(cycles') = Len(cycles)
             /\ Len(out_file'.written) = Len(out_file.written) + 1
             /\ SubSeq(out_file'.written, 1, Len(out_file.written)) = out_file.written
             /\ Last(out_file'.written).timestamp = clock' \div TicksPerSecond
       /\ \A i \in 1..(Len(out_file'.written) - 1) :
             out_file'.written[i].timestamp <= out_file'.written[i + 1].timestamp]_vars

C11_Witness ==
    /\ pc = "returned"
    /\ Len(cycles) = 3
    /\ Len(out_file.written) = 2
    /\ out_file.written[1].timestamp < out_file.written[2].timestamp
    /\ out_file.written[1].temperature # out_file.written[2].temperature

\* a fatal diagnostic of do_sample (line 90 or line 95) has been printed
FatalPrinted ==
    /\ stderr # <<>>
    /\ Last(stderr)[1] \in {DeviceNotFoundError, MultipleDevicesError}

\* C13: once a cycle has ended in RequestedDeviceNotFound or AmbiguousDevice the
\* loop does nothing more: no sleep time is computed or slept, do_sample is not
\* called again and the sink is never written again.
C13_FatalStopsLoop ==
    [][FatalPrinted
        => /\ pc \notin {"returned", "sleeping", "call"}
           /\ pc' = pc
           /\ cycles' = cycles
           /\ out_file' = out_file
           /\ <<now, sleep_time, clock>>' = <<now, sleep_time, clock>>]_vars

C13_Witness ==
    /\ FatalPrinted
    /\ AmbiguousDevice \/ RequestedDeviceNotFound
    /\ Len(cycles) = 2
    /\ Len(cycles) < MaxCycles
    /\ Len(out_file.written) = 1

\* C14: an interval <= 0 is rejected before the loop starts: the process never
\* leaves main except into the usage error, the output file is not opened and
\* nothing is enumerated, written or slept; inside the loop interval >= 1, and
\* no step changes interval.
C14_IntervalValidation ==
    /\ [](/\ interval <= 0
             => /\ pc \in {"main", "usage"}
                /\ ~out_file.open
                /\ out_file.written = <<>> /\ out_file.buffer = <<>>
                /\ cycles = <<>>
                /\ sleep_time = 0
          /\ pc \notin {"main", "usage"} => interval >= 1
          /\ pc = "usage" => (interval <= 0 /\ exit_status = 2
                                /\ stderr = <<<<IntervalError>>>>))
    /\ [][interval' = interval]_vars

C14_Witness ==
    /\ pc = "usage"
    /\ interval = 0
    /\ ~out_file.open
    /\ exit_status = 2

\* C15: for every Celsius input the value written in format F, computed as
\* (celsius + 40) * 9 / 5 - 40, is the textbook celsius * 9 / 5 + 32 (stated
\* without division: 5 * F = 9 * celsius + 160); 0 Celsius is written as 32 in
\* format F and as 273.15 in format K.
C15_Fahrenheit ==
    [][(pc = "sample" /\ Len(outputs) = 1)
        => LET c == outputs[1].temperature
               t == Last(out_file'.written).temperature
           IN /\ Len(out_file'.written) = 1
              /\ temp_format = "F" => 5 * t = 9 * c + 16000
              /\ (temp_format = "F" /\ c = 0) => t = 3200
              /\ (temp_format = "K" /\ c = 0) => t = 27315]_vars

C15_Witness ==
    /\ pc = "returned"
    /\ temp_format = "F"
    /\ Len(out_file.written) = 1
    /\ Last(out_file.written).temperature = -400

\* a cycle that enumerates exactly one device reading 18.5 degrees Celsius,
\* without --device and with --temp-format F
OneDeviceAt18_5 ==
    /\ pc = "sample"
    /\ device = None
    /\ temp_format = "F"
    /\ Len(outputs) = 1
    /\ outputs[1].temperature = 1850

\* C16 as stated: that cycle writes exactly one line whose temperature field
\* is 58.1.
C16_EndToEnd_58_1 ==
    [][OneDeviceAt18_5
        => /\ Len(out_file'.written) = Len(out_file.written) + 1
           /\ Last(out_file'.written).temperature = 5810]_vars

\* C16 as amended: that cycle writes exactly one line whose temperature field
\* is 65.3.
C16_EndToEnd ==
    [][OneDeviceAt18_5
        => /\ Len(out_file'.written) = Len(out_file.written) + 1
           /\ SubSeq(out_file'.written, 1, Len(out_file.written)) = out_file.written
           /\ Last(out_file'.written).temperature = 6530]_vars

C16_Witness ==
    /\ pc = "returned"
    /\ device = None
    /\ temp_format = "F"
    /\ found = 1
    /\ Len(cycles) = 1
    /\ Len(out_file.written) = 1
    /\ out_file.written[1].temperature = 6530

\* C17: the duration passed to sleep is always positive and at most the
\* interval, also when the elapsed time is a multiple of the interval; every
\* invocation of do_sample after the first starts a positive sleep after the
\* previous call returned.
C17_NoBusyLoop ==
    /\ pc = "sleeping"
          => /\ 0 < sleep_time
             /\ sleep_time <= IntervalTicks(interval)
    /\ (pc = "sample" /\ Len(cycles) > 1)
          => /\ started = now + sleep_time
             /\ started > now

C17_Witness ==
    /\ pc = "sleeping"
    /\ GridOffset(now) = 0
    /\ now > origin_time
    /\ sleep_time = IntervalTicks(interval)

\* C18: at every instant the number of do_sample invocations started so far is
\* at most 1 + floor((T - origin_time) / interval), also after a call that ran
\* longer than the interval: missed grid points are not replayed.
C18_NoReplay ==
    pc \in {"call", "sample", "returned", "sleeping", "exited", "raised"}
        => Len(cycles) <= 1 + (clock - origin_time) \div IntervalTicks(interval)

C18_Witness ==
    /\ pc = "sample"
    /\ Len(cycles) = 2
    /\ now - origin_time > IntervalTicks(interval)
    /\ started = now + sleep_time

\* the positions of the readings that remain after the optional selector filter
Remaining(outs, dev) == IF dev = None THEN 1..Len(outs) ELSE Candidates(outs, dev)

\* C19: a cycle adds a line only when exactly one reading remains after the
\* optional selector filter, and the line carries the temperature of that
\* reading of this cycle's enumeration; every other cycle (empty, not found,
\* several candidates) and every step outside do_sample leaves the sink as it is.
C19_NoSilentPick ==
    [][IF pc = "sample" /\ Cardinality(Remaining(outputs, device)) = 1
       THEN LET i == CHOOSE i \in Remaining(outputs, device) : TRUE
            IN out_file'.written = Append(out_file.written,
                   SampleLine(clock', temp_format, outputs[i].temperature))
       ELSE /\ out_file'.written = out_file.written
            /\ out_file'.buffer = out_file.buffer]_vars

C19_Witness ==
    /\ pc \in {"exited", "raised"}
    /\ found >= 2
    /\ Len(cycles) = 2
    /\ Len(out_file.written) = 1
    /\ out_file.buffer = <<>>

\* C12: loop_forever never returns: once entered, control is at the call, in
\* do_sample, at the sleep computation or in the sleep, or the process has been
\* ended by do_sample; and after every call that returns, do_sample is
\* eventually called again (for the cycles that are explored).
C12_LoopNeverReturns ==
    /\ [](pc \notin {"main", "usage", "loop"}
            => pc \in {"call", "sample", "returned", "sleeping", "exited", "raised"})
    /\ [](pc \in {"call", "sample", "returned", "sleeping"} => exit_status = -1)
    /\ (pc = "returned" /\ Len(cycles) < MaxCycles) ~> pc = "sample"

C12_Witness ==
    /\ pc = "sample"
    /\ Len(cycles) = 3
    /\ started = now + sleep_time
    /\ exit_status = -1

====
